---- MODULE Spec2Model ----
(***************************************************************************)
(* Model of the plagiarism detectors of the repository:                    *)
(*   src/Plagiarism.py          exact-sentence search on Wikipedia         *)
(*   src/backend/plagiarism.py  TF-IDF / cosine similarity scorer          *)
(*   src/backend/app.py, main.py, main_optimized.py, main_ultra_lite.py    *)
(*                              the HTTP endpoints of the four servers     *)
(*   src/backend/paraphraser_lite.py  the lazily loaded pipeline           *)
(* A text is a sequence of one-character strings.                          *)
(***************************************************************************)
EXTENDS Integers, Sequences, FiniteSets, TLC

VARIABLES
    \* ---- normalize_sentence / get_sentences_from_text (src/Plagiarism.py) ----
    nPc,        \* "input", "normalized", "renormalized", "tokenized"
    nText,      \* the argument text
    nOnce,      \* normalize_sentence(nText)
    nTwice,     \* normalize_sentence(nOnce)
    nSents,     \* get_sentences_from_text(nText)
    \* ---- search_wikipedia_for_exact_text (src/Plagiarism.py) ----
    pc,                     \* "search1", "search2", "scan", "done" ("idle": not called)
    user_input_sentence,    \* the argument
    search_results,         \* the candidate titles the search returned
    idx,                    \* position of the for loop in search_results
    found_in_pages,         \* titles appended so far
    results,                \* the returned mapping (meaningful when pc = "done")
    raised,                 \* the exception that reached the caller, or "none"
    wiki,                   \* the page Wikipedia has under each title
    searches,               \* log of the wikipedia.search calls
    fetches,                \* log of the wikipedia.page calls
    \* ---- check_plagiarism (src/backend/plagiarism.py) ----
    pPc,                    \* "call", "returned" ("idle": not called)
    input_text,             \* the text to check, a sequence of words
    reference_texts,        \* the texts it is compared with
    report,                 \* the returned dict (meaningful when pPc = "returned")
    rounding,               \* the rounding error of the float cosine of a row
                            \* with itself, in last places: -1, 0 or 1
    \* ---- the HTTP endpoints (src/backend/app.py, main*.py) ----
    hPc,                    \* "received", "responded" ("idle": no request)
    variant,                \* the server module that runs
    route,                  \* the path the request was posted to
    request,                \* the JSON body, or the uploaded file
    pipeline_fails,         \* whether the text-generation pipeline raises
    response,               \* status and body (meaningful when hPc = "responded")
    scorer_calls,           \* log of the calls to the similarity scorer
    \* ---- concurrent calls of check_plagiarism (main_optimized.py 77-86) ----
    cPc,                    \* where each caller stands ("idle": no callers)
    cArgs,                  \* the text and the references of each caller
    _plagiarism_checker,    \* the global handle, "None" until the first import
    plagiarism_checker,     \* the handle each caller got from the getter
    vectorizer,             \* the local vectorizer of each call: the texts it
                            \* was fitted on, or "unfitted"
    cMatrix,                \* the local tfidf_matrix of each call
    cReport,                \* the report each call returned
    interleaved,            \* whether a call fitted its vectorizer while
                            \* another call stood between its fit and its return
    \* ---- the lazily loaded handles (main_optimized.py 38-86,
    \*      paraphraser_lite.py 6-22) ----
    gPc,                    \* where each request stands in the getter
                            \* (<<>>: no getter is called)
    getter,                 \* the getter the requests call
    _handle,                \* the global of that getter, None until it is set
    loaded,                 \* the object each request imported or built
    handle,                 \* the handle the getter returned to each request
    assignments             \* log of the assignments to the global

normVars == <<nPc, nText, nOnce, nTwice, nSents>>
wikiVars == <<pc, user_input_sentence, search_results, idx, found_in_pages,
              results, raised, wiki, searches, fetches>>
plagVars == <<pPc, input_text, reference_texts, report, rounding>>
httpVars == <<hPc, variant, route, request, pipeline_fails, response,
              scorer_calls>>
concVars == <<cPc, cArgs, _plagiarism_checker, plagiarism_checker, vectorizer,
              cMatrix, cReport, interleaved>>
lazyVars == <<gPc, getter, _handle, loaded, handle, assignments>>
vars == <<nPc, nText, nOnce, nTwice, nSents,
          pc, user_input_sentence, search_results, idx, found_in_pages,
          results, raised, wiki, searches, fetches,
          pPc, input_text, reference_texts, report, rounding,
          hPc, variant, route, request, pipeline_fails, response,
          scorer_calls,
          cPc, cArgs, _plagiarism_checker, plagiarism_checker, vectorizer,
          cMatrix, cReport, interleaved,
          gPc, getter, _handle, loaded, handle, assignments>>

\* what the actions of one component leave alone
notNorm == <<wikiVars, plagVars, httpVars, concVars, lazyVars>>
notWiki == <<normVars, plagVars, httpVars, concVars, lazyVars>>
notPlag == <<normVars, wikiVars, httpVars, concVars, lazyVars>>
notHttp == <<normVars, wikiVars, pPc, input_text, reference_texts, report,
             concVars, lazyVars>>
notConc == <<normVars, wikiVars, pPc, input_text, reference_texts, report,
             httpVars, lazyVars>>
notLazy == <<normVars, wikiVars, plagVars, httpVars, concVars>>

(***************************************************************************)
(* Bounds                                                                  *)
(***************************************************************************)
MaxLen == 5         \* longest text given to the text utilities
MaxResults == 3     \* most titles one wikipedia.search call returns
MaxRefs == 2        \* most reference texts given to check_plagiarism

(***************************************************************************)
(* Characters.  "A" is an upper-case letter whose lower-case form is "a".  *)
(* "M" stands for an upper-case letter (Unicode category Lu) that has no   *)
(* lower-case mapping, such as U+1D400 MATHEMATICAL BOLD CAPITAL A:        *)
(* str.lower() leaves it unchanged and str.isupper() is true of it.        *)
(* " " and "\t" are two kinds of whitespace; "." ends a sentence.          *)
(***************************************************************************)
Chars == {"a", "A", "M", " ", "\t", "."}
Whitespace == {" ", "\t"}
UpperCase == {"A", "M"}

Strings == UNION {[1..n -> Chars] : n \in 0..MaxLen}

\* str.lower() on one character
LowerChar(c) == IF c = "A" THEN "a" ELSE c

\* str.lower()
lower(s) == [i \in 1..Len(s) |-> LowerChar(s[i])]

\* s with its leading whitespace removed
RECURSIVE lstrip(_)
lstrip(s) ==
    IF s = <<>> THEN <<>>
    ELSE IF Head(s) \in Whitespace THEN lstrip(Tail(s))
    ELSE s

\* s with its trailing whitespace removed
RECURSIVE rstrip(_)
rstrip(s) ==
    IF s = <<>> THEN <<>>
    ELSE IF s[Len(s)] \in Whitespace THEN rstrip(SubSeq(s, 1, Len(s) - 1))
    ELSE s

\* str.strip()
strip(s) == rstrip(lstrip(s))

\* a plausible slip: the pattern r'\s\s?' in place of r'\s+', so that a run of
\* three whitespace characters is replaced by two spaces
RECURSIVE re_sub_ws_AtMostTwo(_)
re_sub_ws_AtMostTwo(s) ==
    IF s = <<>> THEN <<>>
    ELSE IF Head(s) \in Whitespace
         THEN IF Len(s) >= 2 /\ s[2] \in Whitespace
              THEN <<" ">> \o re_sub_ws_AtMostTwo(SubSeq(s, 3, Len(s)))
              ELSE <<" ">> \o re_sub_ws_AtMostTwo(Tail(s))
    ELSE <<Head(s)>> \o re_sub_ws_AtMostTwo(Tail(s))

\* re.sub(r'\s+', ' ', s): every maximal run of whitespace becomes one space
RECURSIVE re_sub_ws(_)
re_sub_ws(s) ==
    IF s = <<>> THEN <<>>
    ELSE IF Head(s) \in Whitespace THEN <<" ">> \o re_sub_ws(lstrip(Tail(s)))
    ELSE <<Head(s)>> \o re_sub_ws(Tail(s))

normalize_sentence(sentence) == strip(re_sub_ws(lower(sentence)))

\* nltk's sent_tokenize, the external sentence tokenizer: the text is cut
\* after every sentence terminator; the pieces keep their whitespace and a
\* piece may consist of whitespace only.
RECURSIVE SplitAfterStop(_, _)
SplitAfterStop(s, cur) ==
    IF s = <<>> THEN (IF cur = <<>> THEN <<>> ELSE <<cur>>)
    ELSE IF Head(s) = "." THEN <<cur \o <<".">>>> \o SplitAfterStop(Tail(s), <<>>)
    ELSE SplitAfterStop(Tail(s), cur \o <<Head(s)>>)

sent_tokenize(text) == SplitAfterStop(text, <<>>)

\* [f(s) for s in seq if keep(s)]
RECURSIVE NormalizeKept(_)
NormalizeKept(seq) ==
    IF seq = <<>> THEN <<>>
    ELSE IF strip(Head(seq)) # <<>>
         THEN <<normalize_sentence(Head(seq))>> \o NormalizeKept(Tail(seq))
         ELSE NormalizeKept(Tail(seq))

\* a plausible slip: the "if s.strip()" filter is missing
get_sentences_from_text_NoFilter(text) ==
    LET toks == sent_tokenize(text)
    IN [i \in 1..Len(toks) |-> normalize_sentence(toks[i])]

get_sentences_from_text(text) == NormalizeKept(sent_tokenize(text))

Range(f) == {f[i] : i \in DOMAIN f}

(***************************************************************************)
(* The text utilities applied to every text up to MaxLen characters        *)
(***************************************************************************)
\* the state of a component that is not called in a specification
IdleNorm ==
    /\ nPc = "idle"
    /\ nText = <<>>
    /\ nOnce = <<>>
    /\ nTwice = <<>>
    /\ nSents = <<>>

IdleWiki ==
    /\ pc = "idle"
    /\ user_input_sentence = <<>>
    /\ search_results = <<>>
    /\ idx = 1
    /\ found_in_pages = <<>>
    /\ results = <<>>
    /\ raised = "none"
    /\ wiki = <<>>
    /\ searches = <<>>
    /\ fetches = <<>>

IdlePlag ==
    /\ pPc = "idle"
    /\ input_text = <<>>
    /\ reference_texts = <<>>
    /\ report = <<>>
    /\ rounding = 0

IdleHttp ==
    /\ hPc = "idle"
    /\ variant = "none"
    /\ route = "none"
    /\ request = <<>>
    /\ pipeline_fails = FALSE
    /\ response = <<>>
    /\ scorer_calls = <<>>

IdleConc ==
    /\ cPc = <<>>
    /\ cArgs = <<>>
    /\ _plagiarism_checker = "None"
    /\ plagiarism_checker = <<>>
    /\ vectorizer = <<>>
    /\ cMatrix = <<>>
    /\ cReport = <<>>
    /\ interleaved = FALSE

IdleLazy ==
    /\ gPc = <<>>
    /\ getter = "none"
    /\ _handle = <<>>
    /\ loaded = <<>>
    /\ handle = <<>>
    /\ assignments = <<>>

InitNorm ==
    /\ nPc = "input"
    /\ nText \in Strings
    /\ nOnce = <<>>
    /\ nTwice = <<>>
    /\ nSents = <<>>
    /\ IdleWiki
    /\ IdlePlag
    /\ IdleHttp
    /\ IdleConc
    /\ IdleLazy

Normalize ==
    /\ nPc = "input"
    /\ nOnce' = normalize_sentence(nText)
    /\ nPc' = "normalized"
    /\ UNCHANGED <<nText, nTwice, nSents>>
    /\ UNCHANGED notNorm

Renormalize ==
    /\ nPc = "normalized"
    /\ nTwice' = normalize_sentence(nOnce)
    /\ nPc' = "renormalized"
    /\ UNCHANGED <<nText, nOnce, nSents>>
    /\ UNCHANGED notNorm

GetSentences ==
    /\ nPc = "input"
    /\ nSents' = get_sentences_from_text(nText)
    /\ nPc' = "tokenized"
    /\ UNCHANGED <<nText, nOnce, nTwice>>
    /\ UNCHANGED notNorm

NextNorm == Normalize \/ Renormalize \/ GetSentences

SpecNorm == InitNorm /\ [][NextNorm]_vars

(***************************************************************************)
(* C8: normalize_sentence is idempotent: normalizing an already normalized *)
(* text gives the same text.                                               *)
(***************************************************************************)
C8_NormalizeIdempotent ==
    nPc = "renormalized" => nTwice = nOnce

\* a text that normalization really changes was normalized twice
C8_Witness ==
    /\ nPc = "renormalized"
    /\ nOnce # nText
    /\ nOnce # <<>>
    /\ \E i \in 1..Len(nText) : nText[i] = "\t"
    /\ \E i \in 1..Len(nText) : nText[i] = "A"

(***************************************************************************)
(* C9 as stated: every sentence produced by get_sentences_from_text is     *)
(* non-empty, contains no upper-case character, has no leading or trailing *)
(* whitespace and no whitespace other than single spaces between words.    *)
(***************************************************************************)
SingleSpaced(s) ==
    /\ s # <<>>
    /\ s[1] \notin Whitespace
    /\ s[Len(s)] \notin Whitespace
    /\ \A i \in 1..Len(s) : s[i] \in Whitespace => s[i] = " "
    /\ \A i \in 1..(Len(s) - 1) : ~(s[i] = " " /\ s[i + 1] = " ")

C9_AsStated ==
    nPc = "tokenized" =>
        \A i \in 1..Len(nSents) :
            /\ SingleSpaced(nSents[i])
            /\ \A j \in 1..Len(nSents[i]) : nSents[i][j] \notin UpperCase

(***************************************************************************)
(* C9 amended: every sentence produced by get_sentences_from_text is       *)
(* non-empty, contains no character that lower-casing would change, has no *)
(* leading or trailing whitespace and no whitespace other than single      *)
(* spaces between words; the output has one sentence for each segment of   *)
(* the tokenizer that is not empty after trimming, and none for the others.*)
(***************************************************************************)
C9_SentencesNormalized ==
    nPc = "tokenized" =>
        /\ \A i \in 1..Len(nSents) :
            /\ SingleSpaced(nSents[i])
            /\ lower(nSents[i]) = nSents[i]
        /\ Len(nSents) =
             Cardinality({k \in 1..Len(sent_tokenize(nText)) :
                             strip(sent_tokenize(nText)[k]) # <<>>})

\* a text with an upper-case letter, a tab and a whitespace-only segment was
\* tokenized: one sentence comes out, one segment is dropped
C9_Witness ==
    /\ nPc = "tokenized"
    /\ Len(nSents) = 1
    /\ Len(sent_tokenize(nText)) = 2
    /\ \E i \in 1..Len(nText) : nText[i] = "A"
    /\ \E i \in 1..Len(nText) : nText[i] = "\t"

(***************************************************************************)
(* search_wikipedia_for_exact_text                                         *)
(***************************************************************************)
Titles == {"T1", "T2"}

SeqsUpTo(S, n) == UNION {[1..k -> S] : k \in 0..n}

\* the sentences the function is called with
Sentences == { <<"A", "\t", "a">>, <<"a", ".">> }

\* the page contents Wikipedia serves: the first has the sentence "a a" and
\* not "a.", the second has "a a" only inside a longer sentence, the third
\* has the sentence "a." and not "a a"
Docs == { <<"a", " ", " ", "A">>,
          <<"a", " ", "a", " ", "a", ".">>,
          <<" ", "A", ".", " ", "a">> }

\* what one wikipedia.search call can do: return up to max_results titles,
\* time out (HTTPTimeoutError), or raise anything else
SearchOutcomes ==
    [kind : {"ok"}, titles : SeqsUpTo(Titles, MaxResults)]
        \cup [kind : {"timeout", "error"}, titles : {<<>>}]

\* the option lists a DisambiguationError can carry: every list of different
\* titles, the empty list included
OptionLists ==
    {l \in SeqsUpTo(Titles, Cardinality(Titles)) :
        \A i, j \in DOMAIN l : i # j => l[i] # l[j]}

\* what Wikipedia can have under a title: a page with a text, a
\* disambiguation page with a list of options (wikipedia.page raises
\* DisambiguationError), or nothing (it raises PageError)
Pages ==
    [kind : {"ok"}, options : {<<>>}, content : Docs]
        \cup [kind : {"disambiguation"}, options : OptionLists,
              content : {<<>>}]
        \cup [kind : {"page_error"}, options : {<<>>}, content : {<<>>}]

\* what one wikipedia.page(title).content can do: behave as the page under
\* the title says, or raise any other exception (a transient network fault,
\* a malformed reply)
PageOutcomes(title) ==
    {wiki[title], [kind |-> "error", options |-> <<>>, content |-> <<>>]}

\* f'"{user_input_sentence}"'
Quoted(sentence) == <<"\"">> \o sentence \o <<"\"">>

\* line 23
normalized_user_sentence == normalize_sentence(user_input_sentence)

\* a plausible slip: the sentence is looked up as typed, not normalized
ExactMatch_Raw(sentence, page_content) ==
    sentence \in Range(get_sentences_from_text(page_content))

\* normalized_user_sentence in get_sentences_from_text(page_content)
ExactMatch(sentence, page_content) ==
    normalize_sentence(sentence) \in Range(get_sentences_from_text(page_content))

\* a plausible slip: list(found_in_pages), the duplicates are kept
ListOfSet_KeepDuplicates(found) == {found}

\* list(set(found)): the distinct titles, in an order the program does not fix
ListOfSet(found) ==
    {l \in [1..Cardinality(Range(found)) -> Range(found)] : Range(l) = Range(found)}

\* the entry the log gets for one wikipedia.page call; the options of a
\* DisambiguationError raised by the fallback fetch (level 2) are never read
\* by the program and are not kept
Fetch(cand, level, title, o) ==
    [cand |-> cand, level |-> level, title |-> title,
     kind |-> o.kind, options |-> IF level = 1 THEN o.options ELSE <<>>,
     content |-> o.content]

EmptyMapping == <<>>

Init ==
    /\ pc = "search1"
    /\ user_input_sentence \in Sentences
    /\ search_results = <<>>
    /\ idx = 1
    /\ found_in_pages = <<>>
    /\ results = EmptyMapping
    /\ raised = "none"
    /\ wiki \in [Titles -> Pages]
    /\ searches = <<>>
    /\ fetches = <<>>
    /\ IdleNorm
    /\ IdlePlag
    /\ IdleHttp
    /\ IdleConc
    /\ IdleLazy

\* a plausible slip: the quoted search is not inside the try block
SearchQuoted_NoCatch ==
    /\ pc = "search1"
    /\ \E o \in SearchOutcomes :
        /\ searches' = Append(searches,
                [query |-> Quoted(user_input_sentence), kind |-> o.kind,
                 titles |-> o.titles])
        /\ IF o.kind = "ok"
           THEN /\ search_results' = o.titles
                /\ pc' = IF o.titles = <<>> THEN "search2" ELSE "scan"
                /\ UNCHANGED <<results, raised>>
           ELSE /\ pc' = "done"
                /\ raised' = o.kind
                /\ UNCHANGED <<search_results, results>>
    /\ UNCHANGED <<user_input_sentence, idx, found_in_pages, wiki, fetches>>
    /\ UNCHANGED notWiki

\* lines 28-31 and 70-75: the quoted search; an exception is caught by the
\* outer handlers, which return {}
SearchQuoted ==
    /\ pc = "search1"
    /\ \E o \in SearchOutcomes :
        /\ searches' = Append(searches,
                [query |-> Quoted(user_input_sentence), kind |-> o.kind,
                 titles |-> o.titles])
        /\ IF o.kind = "ok"
           THEN /\ search_results' = o.titles
                /\ pc' = IF o.titles = <<>> THEN "search2" ELSE "scan"
                /\ UNCHANGED results
           ELSE /\ pc' = "done"
                /\ results' = EmptyMapping
                /\ UNCHANGED search_results
    /\ UNCHANGED <<user_input_sentence, idx, found_in_pages, raised, wiki, fetches>>
    /\ UNCHANGED notWiki

\* a plausible slip: the retry is made with the quoted query again
SearchUnquoted_StillQuoted ==
    /\ pc = "search2"
    /\ \E o \in SearchOutcomes :
        /\ searches' = Append(searches,
                [query |-> Quoted(user_input_sentence), kind |-> o.kind,
                 titles |-> o.titles])
        /\ IF o.kind = "ok" /\ o.titles # <<>>
           THEN /\ search_results' = o.titles
                /\ pc' = "scan"
                /\ UNCHANGED results
           ELSE /\ pc' = "done"
                /\ results' = EmptyMapping
                /\ UNCHANGED search_results
    /\ UNCHANGED <<user_input_sentence, idx, found_in_pages, raised, wiki, fetches>>
    /\ UNCHANGED notWiki

\* lines 31-37 and 70-75: the quoted search found nothing, the sentence is
\* searched without the quotes; no result again, or an exception, returns {}
SearchUnquoted ==
    /\ pc = "search2"
    /\ \E o \in SearchOutcomes :
        /\ searches' = Append(searches,
                [query |-> user_input_sentence, kind |-> o.kind,
                 titles |-> o.titles])
        /\ IF o.kind = "ok" /\ o.titles # <<>>
           THEN /\ search_results' = o.titles
                /\ pc' = "scan"
                /\ UNCHANGED results
           ELSE /\ pc' = "done"
                /\ results' = EmptyMapping
                /\ UNCHANGED search_results
    /\ UNCHANGED <<user_input_sentence, idx, found_in_pages, raised, wiki, fetches>>
    /\ UNCHANGED notWiki

\* the candidate the for loop is at
page_title == search_results[idx]

\* a plausible slip: e.options[-1], the last option is followed
FirstOption_Last(options) == options[Len(options)]

\* e.options[0]
FirstOption(options) == options[1]

\* line 47, the comparison of lines 44-47 for each sentence and each page
\* content the inputs range over, evaluated once
sentence_found == [sentence \in Sentences, page_content \in Docs |->
                      ExactMatch(sentence, page_content)]

\* lines 43-49: the page is fetched and its sentences are compared
PageOk ==
    /\ pc = "scan"
    /\ idx <= Len(search_results)
    /\ \E o \in PageOutcomes(page_title) :
        /\ o.kind = "ok"
        /\ fetches' = Append(fetches, Fetch(idx, 1, page_title, o))
        /\ found_in_pages' =
             IF sentence_found[user_input_sentence, o.content]
             THEN Append(found_in_pages, page_title)
             ELSE found_in_pages
    /\ idx' = idx + 1
    /\ UNCHANGED <<pc, user_input_sentence, search_results, results, raised, wiki,
                   searches>>
    /\ UNCHANGED notWiki

\* a plausible slip: every option of the disambiguation page is fetched and
\* compared, not only the first
PageDisambiguation_EveryOption ==
    /\ pc = "scan"
    /\ idx <= Len(search_results)
    /\ \E o \in PageOutcomes(page_title) :
        /\ o.kind = "disambiguation"
        /\ o.options # <<>>
        /\ fetches' = fetches \o <<Fetch(idx, 1, page_title, o)>> \o
                          [k \in DOMAIN o.options |->
                              Fetch(idx, 2, o.options[k], wiki[o.options[k]])]
        /\ found_in_pages' = found_in_pages \o
              SelectSeq(o.options,
                        LAMBDA t : /\ wiki[t].kind = "ok"
                                   /\ sentence_found[user_input_sentence, wiki[t].content])
    /\ idx' = idx + 1
    /\ UNCHANGED <<pc, user_input_sentence, search_results, results, raised, wiki,
                   searches>>
    /\ UNCHANGED notWiki

\* lines 51-63: the title is a disambiguation page with at least one option;
\* the first option is fetched and compared, and whatever that fetch raises
\* is caught by the inner handlers
PageDisambiguation ==
    /\ pc = "scan"
    /\ idx <= Len(search_results)
    /\ \E o \in PageOutcomes(page_title) :
        /\ o.kind = "disambiguation"
        /\ o.options # <<>>
        /\ \E o2 \in PageOutcomes(FirstOption(o.options)) :
            /\ fetches' = fetches \o <<Fetch(idx, 1, page_title, o),
                                       Fetch(idx, 2, FirstOption(o.options), o2)>>
            /\ found_in_pages' =
                 IF o2.kind = "ok" /\ sentence_found[user_input_sentence, o2.content]
                 THEN Append(found_in_pages, FirstOption(o.options))
                 ELSE found_in_pages
    /\ idx' = idx + 1
    /\ UNCHANGED <<pc, user_input_sentence, search_results, results, raised, wiki,
                   searches>>
    /\ UNCHANGED notWiki

\* lines 51-52 and 73-75: the DisambiguationError has no option; e.options[0]
\* in the handler's print raises IndexError, which no inner handler covers:
\* it leaves the for loop and is caught by the outer "except Exception",
\* which returns {}
PageNoOptions ==
    /\ pc = "scan"
    /\ idx <= Len(search_results)
    /\ \E o \in PageOutcomes(page_title) :
        /\ o.kind = "disambiguation"
        /\ o.options = <<>>
        /\ fetches' = Append(fetches, Fetch(idx, 1, page_title, o))
    /\ results' = EmptyMapping
    /\ pc' = "done"
    /\ UNCHANGED <<user_input_sentence, search_results, idx, found_in_pages,
                   raised, wiki, searches>>
    /\ UNCHANGED notWiki

\* lines 65-66: PageError, the candidate is skipped
PageNotFound ==
    /\ pc = "scan"
    /\ idx <= Len(search_results)
    /\ \E o \in PageOutcomes(page_title) :
        /\ o.kind = "page_error"
        /\ fetches' = Append(fetches, Fetch(idx, 1, page_title, o))
    /\ idx' = idx + 1
    /\ UNCHANGED <<pc, user_input_sentence, search_results, found_in_pages,
                   results, raised, wiki, searches>>
    /\ UNCHANGED notWiki

\* lines 67-68: any other exception, the candidate is skipped
PageFails ==
    /\ pc = "scan"
    /\ idx <= Len(search_results)
    /\ \E o \in PageOutcomes(page_title) :
        /\ o.kind = "error"
        /\ fetches' = Append(fetches, Fetch(idx, 1, page_title, o))
    /\ idx' = idx + 1
    /\ UNCHANGED <<pc, user_input_sentence, search_results, found_in_pages,
                   results, raised, wiki, searches>>
    /\ UNCHANGED notWiki

\* lines 77-80: the loop is over, the mapping is built and returned
Return ==
    /\ pc = "scan"
    /\ idx > Len(search_results)
    /\ results' \in
         IF found_in_pages = <<>>
         THEN {EmptyMapping}
         ELSE {[k \in {normalized_user_sentence} |-> l] : l \in ListOfSet(found_in_pages)}
    /\ pc' = "done"
    /\ UNCHANGED <<user_input_sentence, search_results, idx, found_in_pages,
                   raised, wiki, searches, fetches>>
    /\ UNCHANGED notWiki

Next ==
    \/ SearchQuoted
    \/ SearchUnquoted
    \/ PageOk
    \/ PageDisambiguation
    \/ PageNoOptions
    \/ PageNotFound
    \/ PageFails
    \/ Return

Spec == Init /\ [][Next]_vars

\* the call runs on: every wikipedia.search and wikipedia.page returns or
\* raises, and the interpreter takes the next step of the function
SpecFair == Spec /\ WF_vars(Next)

(***************************************************************************)
(* Vocabulary of the claims about search_wikipedia_for_exact_text          *)
(***************************************************************************)
\* the document has, among the tokenizer's segments that are not blank, one
\* whose normal form is the normal form of the sentence
ContainsSentence(content, sentence) ==
    LET segments == sent_tokenize(content)
        wanted == normalize_sentence(sentence)
    IN \E k \in 1..Len(segments) :
            /\ strip(segments[k]) # <<>>
            /\ normalize_sentence(segments[k]) = wanted

\* for each sentence, the documents that contain it
DocsWithSentence == [s \in Sentences |-> {d \in Docs : ContainsSentence(d, s)}]

\* the titles in the returned mapping
ReturnedTitles == UNION {Range(results[k]) : k \in DOMAIN results}

\* the candidates a fetch was made for
FetchedCands == {fetches[i].cand : i \in DOMAIN fetches}

\* the titles of the fetches that returned a document with the sentence, in
\* the order of the fetches
MatchedTitles(log) ==
    LET Matched(f) ==
            f.kind = "ok" /\ f.content \in DocsWithSentence[user_input_sentence]
        hits == SelectSeq(log, Matched)
    IN [i \in 1..Len(hits) |-> hits[i].title]

(***************************************************************************)
(* C1: a per-candidate failure, a disambiguation failure of any kind       *)
(* included (the first option cannot be fetched, is itself a               *)
(* disambiguation page, or the option list is empty), never aborts the     *)
(* scan: when the function returns after a search that found candidates,   *)
(* every candidate has been fetched and every title found is returned.     *)
(***************************************************************************)
C1_FailureNeverAbortsScan ==
    (pc = "done" /\ search_results # <<>>) =>
        /\ \A i \in 1..Len(search_results) : i \in FetchedCands
        /\ Range(found_in_pages) \subseteq ReturnedTitles

(***************************************************************************)
(* C2: when the fetch of a candidate raises PageError or another           *)
(* non-disambiguation exception, all remaining candidates are still        *)
(* evaluated and the returned titles are exactly those of the fetched      *)
(* documents that contain the normalized sentence.                         *)
(***************************************************************************)
C2_PageErrorSkipped ==
    (/\ pc = "done"
     /\ \E i \in DOMAIN fetches :
            fetches[i].level = 1 /\ fetches[i].kind \in {"page_error", "error"}) =>
        /\ \A i \in 1..Len(search_results) : i \in FetchedCands
        /\ ReturnedTitles = Range(MatchedTitles(fetches))

(***************************************************************************)
(* C3: if a wikipedia.search call, quoted or unquoted, raises a timeout or *)
(* any other exception, the function returns the empty mapping, has made   *)
(* no page fetch, and no exception reaches the caller.                     *)
(***************************************************************************)
C3_SearchFailureReturnsEmpty ==
    (\E i \in DOMAIN searches : searches[i].kind # "ok") =>
        /\ pc = "done"
        /\ results = EmptyMapping
        /\ fetches = <<>>
        /\ raised = "none"

\* the quoted search found nothing and the unquoted retry timed out
C3_Witness ==
    /\ pc = "done"
    /\ Len(searches) = 2
    /\ searches[2].kind = "timeout"

(***************************************************************************)
(* C4: the first search is the quoted one; the unquoted search is made if  *)
(* and only if the quoted search returned no title; when both return no    *)
(* title the function returns the empty mapping and fetches nothing.       *)
(***************************************************************************)
QuotedFoundNothing ==
    /\ searches # <<>>
    /\ searches[1].kind = "ok"
    /\ searches[1].titles = <<>>

C4_QuotedThenUnquoted ==
    /\ Len(searches) <= 2
    /\ pc # "search1" => searches # <<>>
    /\ searches # <<>> => searches[1].query = Quoted(user_input_sentence)
    /\ Len(searches) = 2 =>
        /\ QuotedFoundNothing
        /\ searches[2].query = user_input_sentence
    /\ (QuotedFoundNothing /\ pc \in {"scan", "done"}) => Len(searches) = 2
    /\ (Len(searches) = 2 /\ searches[2].kind = "ok" /\ searches[2].titles = <<>>) =>
        /\ pc = "done"
        /\ results = EmptyMapping
        /\ fetches = <<>>

\* both searches returned no title and the function has returned
C4_Witness ==
    /\ pc = "done"
    /\ Len(searches) = 2
    /\ searches[2].kind = "ok"
    /\ searches[2].titles = <<>>

(***************************************************************************)
(* C5: when no fetch fails, the returned titles are exactly the candidate  *)
(* titles whose fetched document has a sentence equal, after               *)
(* normalization, to the normalized input sentence.                        *)
(***************************************************************************)
C5_ExactTitles ==
    (/\ pc = "done"
     /\ search_results # <<>>
     /\ \A i \in DOMAIN fetches : fetches[i].kind = "ok") =>
        /\ Len(fetches) = Len(search_results)
        /\ ReturnedTitles =
             {search_results[i] : i \in {j \in 1..Len(search_results) :
                  fetches[j].content \in DocsWithSentence[user_input_sentence]}}

\* two different candidates were fetched without failure; the sentence, which
\* normalization changes, is in the document of one and not of the other
C5_Witness ==
    /\ pc = "done"
    /\ Len(search_results) = 2
    /\ search_results[1] # search_results[2]
    /\ Len(fetches) = 2
    /\ \A i \in DOMAIN fetches : fetches[i].kind = "ok"
    /\ normalized_user_sentence # user_input_sentence
    /\ ReturnedTitles = {search_results[2]}

(***************************************************************************)
(* C6: the returned value is the empty mapping, or a mapping whose only    *)
(* key is the normalized input sentence and whose value is a non-empty     *)
(* list of titles without repetition.                                      *)
(***************************************************************************)
C6_ResultShape ==
    pc = "done" =>
        \/ DOMAIN results = {}
        \/ /\ DOMAIN results = {normalized_user_sentence}
           /\ results[normalized_user_sentence] # <<>>
           /\ \A i, j \in DOMAIN results[normalized_user_sentence] :
                i # j => results[normalized_user_sentence][i]
                            # results[normalized_user_sentence][j]

\* the same title was found twice, once as a candidate and once as the first
\* option of a disambiguation page, and is returned once
C6_Witness ==
    /\ pc = "done"
    /\ Len(found_in_pages) = 2
    /\ found_in_pages[1] = found_in_pages[2]
    /\ \E i \in DOMAIN fetches : fetches[i].level = 2 /\ fetches[i].kind = "ok"
    /\ DOMAIN results = {normalized_user_sentence}
    /\ Len(results[normalized_user_sentence]) = 1

(***************************************************************************)
(* C7: when the fetch of a candidate raises DisambiguationError, the first *)
(* listed option is fetched, once, and nothing else is fetched for that    *)
(* candidate, also when the option is itself a disambiguation page; a      *)
(* match found there is recorded under the option's title.                 *)
(***************************************************************************)
C7_FirstOptionOnce ==
    /\ \A i \in DOMAIN fetches :
        /\ fetches[i].level \in {1, 2}
        /\ fetches[i].level = 1 => fetches[i].title = search_results[fetches[i].cand]
        /\ (fetches[i].level = 1 /\ fetches[i].kind = "disambiguation"
                /\ fetches[i].options # <<>>) =>
              /\ i < Len(fetches)
              /\ fetches[i + 1].level = 2
              /\ fetches[i + 1].cand = fetches[i].cand
              /\ fetches[i + 1].title = fetches[i].options[1]
        /\ fetches[i].level = 2 =>
              /\ i > 1
              /\ fetches[i - 1].level = 1
              /\ fetches[i - 1].kind = "disambiguation"
              /\ fetches[i - 1].cand = fetches[i].cand
    /\ \A i \in DOMAIN fetches :
        fetches[i].cand = (IF i = 1 THEN 0 ELSE fetches[i - 1].cand)
                            + (IF fetches[i].level = 1 THEN 1 ELSE 0)
    /\ found_in_pages = MatchedTitles(fetches)

\* a disambiguation page with two different options, neither of them the
\* candidate's title: the first option was fetched, has the sentence and is
\* the title recorded
C7_Witness ==
    /\ Len(fetches) = 2
    /\ fetches[1].kind = "disambiguation"
    /\ Len(fetches[1].options) = 2
    /\ fetches[1].options[1] # fetches[1].options[2]
    /\ fetches[1].options[1] # fetches[1].title
    /\ fetches[2].kind = "ok"
    /\ found_in_pages = <<fetches[1].options[1]>>

\* the first option of a disambiguation page was itself a disambiguation
\* page, and the scan went on to the next candidate
C7_SecondLevelReached ==
    /\ Len(fetches) = 3
    /\ fetches[2].level = 2
    /\ fetches[2].kind = "disambiguation"
    /\ fetches[3].level = 1

(***************************************************************************)
(* check_plagiarism (src/backend/plagiarism.py)                            *)
(* A text is the sequence of the words TfidfVectorizer's tokenizer finds   *)
(* in it.  A similarity is kept in thousandths: 1000 is 1.0, 300 is 0.3.   *)
(***************************************************************************)
Words == {"fox", "dog", "the"}

\* stop_words='english'
StopWords == {"the"}

\* the texts check_plagiarism is called with, as input and as references:
\* an empty text, a text of stop words only, and texts that share none, some
\* or all of their terms; the last has the terms of <<"fox", "dog">> once the
\* stop words are removed
Texts == { <<>>,
           <<"the">>,
           <<"fox">>,
           <<"dog">>,
           <<"fox", "dog">>,
           <<"dog", "fox", "fox">>,
           <<"the", "fox", "the", "dog">> }

\* the words of a text that are not stop words
RECURSIVE Content(_)
Content(text) ==
    IF text = <<>> THEN <<>>
    ELSE IF Head(text) \in StopWords THEN Content(Tail(text))
    ELSE <<Head(text)>> \o Content(Tail(text))

\* ngram_range=(1, 2): the unigrams and bigrams of a text, taken after the
\* stop words are removed
Ngrams(text) ==
    LET toks == Content(text)
    IN {<<toks[i]>> : i \in 1..Len(toks)}
          \cup {<<toks[i], toks[i + 1]>> : i \in 1..(Len(toks) - 1)}

\* how often the n-gram occurs in the text
Tf(f, text) ==
    LET toks == Content(text)
    IN Cardinality({i \in 1..(Len(toks) - Len(f) + 1) :
                        SubSeq(toks, i, i + Len(f) - 1) = f})

\* the vocabulary fit_transform learns from the texts; max_features=1000 is
\* never reached by the texts of the model
Vocabulary(texts) == UNION {Ngrams(texts[i]) : i \in DOMAIN texts}

\* in how many of the texts the n-gram occurs
Df(f, texts) == Cardinality({i \in DOMAIN texts : f \in Ngrams(texts[i])})

\* 10 * (ln((1 + n) / (1 + df)) + 1), rounded: the smoothed inverse document
\* frequency of TfidfVectorizer for n texts, in tenths
Idf10(n, df) ==
    << <<10>>,
       <<14, 10>>,
       <<17, 13, 10>>,
       <<19, 15, 12, 10>>,
       <<21, 17, 14, 12, 10>>,
       <<23, 18, 16, 13, 12, 10>> >>[n][df]

\* the row of the TF-IDF matrix for one text; its L2 normalization is left to
\* Cosine, which normalizes again as cosine_similarity does
Row(text, texts) ==
    [f \in Vocabulary(texts) |-> Tf(f, text) * Idf10(Len(texts), Df(f, texts))]

\* vectorizer.fit_transform(all_texts), when the vocabulary is not empty
fit_transform(texts) == [i \in DOMAIN texts |-> Row(texts[i], texts)]

RECURSIVE SumOver(_, _)
SumOver(S, g) ==
    IF S = {} THEN 0
    ELSE LET x == CHOOSE y \in S : TRUE
         IN g[x] + SumOver(S \ {x}, g)

Dot(u, v) == SumOver(DOMAIN u, [f \in DOMAIN u |-> u[f] * v[f]])

\* the integer square root
RECURSIVE ISqrt(_)
ISqrt(n) ==
    IF n < 2 THEN n
    ELSE LET r == 2 * ISqrt(n \div 4)
         IN IF (r + 1) * (r + 1) <= n THEN r + 1 ELSE r

\* cosine_similarity works in double precision: it divides each row by its
\* norm and multiplies the results, and the product of a normalized row with
\* itself is 1.0 or one of the two doubles next to it (three equal weights
\* give 3 * 0.5773502691896258^2 = 1.0000000000000002).  Which of the three
\* depends on the weights of the row; the model draws it once, in rounding,
\* and shows one last place as one thousandth.
Roundings == {-1, 0, 1}

\* a plausible slip: the cosine distance (scipy.spatial.distance.cosine) in
\* place of the cosine similarity
Cosine_Distance(u, v) ==
    IF Dot(u, u) = 0 \/ Dot(v, v) = 0 THEN 1000
    ELSE 1000 - (1000 * Dot(u, v)) \div ISqrt(Dot(u, u) * Dot(v, v))

\* the cosine of two rows in thousandths; a row of zeros has cosine 0, and
\* the cosine of two rows of the same direction carries the rounding error
Cosine(u, v) ==
    IF Dot(u, u) = 0 \/ Dot(v, v) = 0 THEN 0
    ELSE LET exact == (1000 * Dot(u, v)) \div ISqrt(Dot(u, u) * Dot(v, v))
         IN IF exact = 1000 THEN 1000 + rounding ELSE exact

\* cosine_similarity(input_vector, reference_vectors).flatten()
cosine_similarity(u, rows) == [j \in DOMAIN rows |-> Cosine(u, rows[j])]

\* a plausible slip: similarities[0], the score of the first reference
Max_First(seq) == seq[1]

\* max(similarities)
Max(seq) == CHOOSE m \in Range(seq) : \A x \in Range(seq) : x <= m

\* a plausible slip: reference_vectors = tfidf_matrix[0:], the input row is
\* compared too
ReferenceVectors_FromInput(tfidf_matrix) == tfidf_matrix

\* tfidf_matrix[1:]
ReferenceVectors(tfidf_matrix) == SubSeq(tfidf_matrix, 2, Len(tfidf_matrix))

\* a plausible slip: the threshold written as a percentage, 30, which is
\* 30 * 1000 thousandths
plagiarism_threshold_Percent == 30 * 1000

\* plagiarism_threshold = 0.3, in thousandths
plagiarism_threshold == 300

\* lines 19-25: the report for an empty list of references
NoReferencesReport ==
    [plagiarism_detected |-> FALSE,
     max_similarity |-> 0,
     similarity_scores |-> <<>>,
     message |-> "No reference texts provided for comparison."]

\* lines 69-76: the report the except branch builds from the exception e
ErrorReport(e) ==
    [plagiarism_detected |-> FALSE,
     max_similarity |-> 0,
     similarity_scores |-> <<>>,
     error |-> <<"Error during plagiarism check: ", e>>,
     message |-> "Unable to perform plagiarism check due to an error."]

\* fit_transform raises ValueError when no text has a term left once the
\* stop words are removed
EmptyVocabulary == "empty vocabulary; perhaps the documents only contain stop words"

VectorizationFails(all_texts) == Vocabulary(all_texts) = {}

\* lines 41-67: the report made of the TF-IDF matrix
SimilarityReport(matrix) ==
    LET input_vector == matrix[1]
        reference_vectors == ReferenceVectors(matrix)
        similarities == cosine_similarity(input_vector, reference_vectors)
        max_similarity == Max(similarities)
        plagiarism_detected == max_similarity > plagiarism_threshold
    IN [plagiarism_detected |-> plagiarism_detected,
        max_similarity |-> max_similarity,
        similarity_scores |-> similarities,
        threshold |-> plagiarism_threshold,
        message |->
           IF plagiarism_detected
           THEN <<"Potential plagiarism detected! Maximum similarity: ",
                  max_similarity>>
           ELSE <<"No significant plagiarism detected. Maximum similarity: ",
                  max_similarity>>]

\* lines 38-67: the try block when nothing in it raises
ScoredReport(all_texts) == SimilarityReport(fit_transform(all_texts))

\* an exception that leaves check_plagiarism, as its caller sees it
Raised(e) == [raised |-> e]

\* a plausible slip: the body without its try / except, so the ValueError of
\* fit_transform leaves the function
check_plagiarism_NoTry(text, references) ==
    IF references = <<>>
    THEN NoReferencesReport
    ELSE LET all_texts == <<text>> \o references
         IN IF VectorizationFails(all_texts)
            THEN Raised(EmptyVocabulary)
            ELSE ScoredReport(all_texts)

\* a plausible slip: no early return for an empty list of references; the
\* vectorizer is fitted on the input alone and the try block raises, in
\* fit_transform or when the scores of no reference are taken
check_plagiarism_NoEarlyReturn(text, references) ==
    LET all_texts == <<text>> \o references
    IN IF VectorizationFails(all_texts)
       THEN ErrorReport(EmptyVocabulary)
       ELSE IF references = <<>>
            THEN ErrorReport("Found array with 0 sample(s)")
            ELSE ScoredReport(all_texts)

\* lines 19-76
check_plagiarism(text, references) ==
    IF references = <<>>
    THEN NoReferencesReport
    ELSE LET all_texts == <<text>> \o references
         IN IF VectorizationFails(all_texts)
            THEN ErrorReport(EmptyVocabulary)
            ELSE ScoredReport(all_texts)

InitPlag ==
    /\ pPc = "call"
    /\ input_text \in Texts
    /\ reference_texts \in SeqsUpTo(Texts, MaxRefs)
    /\ report = <<>>
    /\ rounding \in Roundings
    /\ IdleNorm
    /\ IdleWiki
    /\ IdleHttp
    /\ IdleConc
    /\ IdleLazy

CheckPlagiarism ==
    /\ pPc = "call"
    /\ report' = check_plagiarism(input_text, reference_texts)
    /\ pPc' = "returned"
    /\ UNCHANGED <<input_text, reference_texts, rounding>>
    /\ UNCHANGED notPlag

NextPlag == CheckPlagiarism

SpecPlag == InitPlag /\ [][NextPlag]_vars

(***************************************************************************)
(* C10 as stated: for every input text and every non-empty list of         *)
(* references, similarity_scores has exactly one entry per reference, in   *)
(* the order of the references.                                            *)
(***************************************************************************)
\* the similarity of the input text and one reference, both weighted over
\* the vocabulary of the input text and all the references
SimilarityTo(reference) ==
    LET corpus == <<input_text>> \o reference_texts
    IN Cosine(Row(input_text, corpus), Row(reference, corpus))

OnePerReferenceInOrder ==
    /\ Len(report.similarity_scores) = Len(reference_texts)
    /\ \A j \in 1..Len(reference_texts) :
          report.similarity_scores[j] = SimilarityTo(reference_texts[j])

C10_AsStated ==
    (pPc = "returned" /\ reference_texts # <<>>) => OnePerReferenceInOrder

(***************************************************************************)
(* C10 amended: for every input text and every non-empty list of           *)
(* references that together contain at least one word that is not a stop   *)
(* word, similarity_scores has exactly one entry per reference, in the     *)
(* order of the references; when they contain none, vectorization fails    *)
(* and similarity_scores is empty.                                         *)
(***************************************************************************)
SomeContentWord ==
    \/ \E i \in DOMAIN input_text : input_text[i] \notin StopWords
    \/ \E j \in DOMAIN reference_texts :
          \E i \in DOMAIN reference_texts[j] : reference_texts[j][i] \notin StopWords

C10_OneScorePerReference ==
    (pPc = "returned" /\ reference_texts # <<>>) =>
        IF SomeContentWord
        THEN OnePerReferenceInOrder
        ELSE report.similarity_scores = <<>>

\* two references were scored: the first shares some of its terms with the
\* input, the second is the input itself
C10_Witness ==
    /\ pPc = "returned"
    /\ Len(reference_texts) = 2
    /\ reference_texts[2] = input_text
    /\ Len(report.similarity_scores) = 2
    /\ report.similarity_scores[1] \in 1..999
    /\ report.similarity_scores[2] = 1000

(***************************************************************************)
(* C11: in every report of check_plagiarism, plagiarism_detected is true   *)
(* exactly when max_similarity is strictly greater than 0.3; a maximum of  *)
(* 0.3 or less is reported as not detected.                                *)
(***************************************************************************)
C11_DetectedIffAboveThreshold ==
    pPc = "returned" =>
        (report.plagiarism_detected <=> report.max_similarity > 300)

\* references were scored, the best score is positive and at most 0.3, and
\* nothing is detected
C11_Witness ==
    /\ pPc = "returned"
    /\ reference_texts # <<>>
    /\ report.max_similarity \in 1..300
    /\ ~report.plagiarism_detected

(***************************************************************************)
(* C12 as stated: for every call with a non-empty list of references,      *)
(* max_similarity is the maximum of the similarity_scores of the same      *)
(* report.                                                                 *)
(***************************************************************************)
IsMaxOf(m, scores) ==
    /\ \E j \in DOMAIN scores : scores[j] = m
    /\ \A j \in DOMAIN scores : scores[j] <= m

C12_AsStated ==
    (pPc = "returned" /\ reference_texts # <<>>) =>
        IsMaxOf(report.max_similarity, report.similarity_scores)

(***************************************************************************)
(* C12 amended: for every call with a non-empty list of references that,   *)
(* together with the input, contain at least one word that is not a stop   *)
(* word, max_similarity is the maximum of the similarity_scores of the     *)
(* same report; when they contain none, vectorization fails,               *)
(* similarity_scores is empty and max_similarity is 0.                     *)
(***************************************************************************)
C12_MaxOfScores ==
    (pPc = "returned" /\ reference_texts # <<>>) =>
        IF SomeContentWord
        THEN IsMaxOf(report.max_similarity, report.similarity_scores)
        ELSE report.similarity_scores = <<>> /\ report.max_similarity = 0

\* two references were scored and the second scores higher than the first
C12_Witness ==
    /\ pPc = "returned"
    /\ Len(report.similarity_scores) = 2
    /\ report.similarity_scores[1] < report.similarity_scores[2]
    /\ report.max_similarity = report.similarity_scores[2]

(***************************************************************************)
(* C13: a failure of the vectorization or of the scoring never reaches the *)
(* caller of check_plagiarism as an exception: every call returns a        *)
(* report, and when the vectorization fails (no word is left once the stop *)
(* words are removed) the report has plagiarism_detected false, a maximum  *)
(* of 0, no scores, and an error description.                              *)
(***************************************************************************)
IsErrorReport(r) ==
    /\ {"plagiarism_detected", "max_similarity", "similarity_scores",
        "error", "message"} \subseteq DOMAIN r
    /\ r.plagiarism_detected = FALSE
    /\ r.max_similarity = 0
    /\ r.similarity_scores = <<>>
    /\ r.error[1] = "Error during plagiarism check: "

C13_FailureReturnedAsReport ==
    pPc = "returned" =>
        /\ "raised" \notin DOMAIN report
        /\ (reference_texts # <<>> /\ ~SomeContentWord) => IsErrorReport(report)

\* the vectorizer was fitted on a text and a reference of stop words only
C13_Witness ==
    /\ pPc = "returned"
    /\ input_text = <<"the">>
    /\ reference_texts # <<>>
    /\ ~SomeContentWord
    /\ "error" \in DOMAIN report

(***************************************************************************)
(* C14: for every input text, a call with an empty list of references      *)
(* returns, without vectorizing anything and without an error field, a     *)
(* report with plagiarism_detected false, max_similarity 0 and a message   *)
(* that says no references were given.                                     *)
(***************************************************************************)
C14_NoReferences ==
    (pPc = "returned" /\ reference_texts = <<>>) =>
        /\ "raised" \notin DOMAIN report
        /\ "error" \notin DOMAIN report
        /\ report.plagiarism_detected = FALSE
        /\ report.max_similarity = 0
        /\ report.similarity_scores = <<>>
        /\ report.message = "No reference texts provided for comparison."

\* the input is made of stop words only, so fitting the vectorizer on it
\* would have failed, and the report carries no error
C14_Witness ==
    /\ pPc = "returned"
    /\ reference_texts = <<>>
    /\ input_text = <<"the">>
    /\ DOMAIN report = {"plagiarism_detected", "max_similarity",
                        "similarity_scores", "message"}

(***************************************************************************)
(* C15 as stated: for every text X, check_plagiarism(X, [X]) reports a     *)
(* max_similarity of about 1.0 and plagiarism_detected true, and a         *)
(* reference identical to the input scores 1.0 wherever it sits in the     *)
(* list of references.                                                     *)
(***************************************************************************)
\* 1.0 up to the rounding of the last place
AboutOne(score) == score \in 999..1001

IdenticalReferenceScoresOne ==
    /\ "raised" \notin DOMAIN report
    /\ reference_texts = <<input_text>> =>
          AboutOne(report.max_similarity) /\ report.plagiarism_detected
    /\ \A j \in DOMAIN reference_texts :
          reference_texts[j] = input_text =>
              /\ j \in DOMAIN report.similarity_scores
              /\ AboutOne(report.similarity_scores[j])

C15_AsStated == pPc = "returned" => IdenticalReferenceScoresOne

(***************************************************************************)
(* C15 amended: for every text X with at least one word that is not a stop *)
(* word, check_plagiarism(X, [X]) reports a max_similarity of about 1.0    *)
(* and plagiarism_detected true, and a reference identical to X scores     *)
(* about 1.0 wherever it sits in the list of references.                   *)
(***************************************************************************)
InputHasContentWord == \E i \in DOMAIN input_text : input_text[i] \notin StopWords

C15_IdenticalScoresOne ==
    (pPc = "returned" /\ InputHasContentWord) => IdenticalReferenceScoresOne

\* the input is the second of two references and the first is another text
C15_Witness ==
    /\ pPc = "returned"
    /\ InputHasContentWord
    /\ Len(reference_texts) = 2
    /\ reference_texts[1] # input_text
    /\ reference_texts[2] = input_text
    /\ ~AboutOne(report.similarity_scores[1])
    /\ AboutOne(report.similarity_scores[2])

(***************************************************************************)
(* C16: every similarity score and max_similarity of a report lies in the  *)
(* closed interval from 0 to 1.                                            *)
(***************************************************************************)
C16_ScoresInUnitInterval ==
    pPc = "returned" =>
        /\ report.max_similarity \in 0..1000
        /\ \A j \in DOMAIN report.similarity_scores :
              report.similarity_scores[j] \in 0..1000

(***************************************************************************)
(* The HTTP endpoints of the four server modules.  One request is handled  *)
(* per behaviour.  A handler is modelled from the parsing of the request   *)
(* to the response the client receives: an HTTPException becomes a         *)
(* response with its status and detail, and an exception no handler        *)
(* catches becomes the 500 Internal Server Error of the framework.         *)
(***************************************************************************)
\* app.py stands for its handlers as lines 22-44 declare them; the call of
\* app.add_middleware on line 6, ahead of app = FastAPI() on line 20, is no
\* part of a handler
Variants == {"app", "main", "main_optimized", "main_ultra_lite"}

TextRoutes == {"/paraphrase", "/grammar", "/summarize"}
UploadRoutes == {"/upload/paraphrase", "/upload/grammar", "/upload/summarize"}

\* app.py declares the four text routes only
Routes(v) ==
    IF v = "app"
    THEN TextRoutes \cup {"/plagiarism"}
    ELSE TextRoutes \cup {"/plagiarism"} \cup UploadRoutes \cup {"/upload/plagiarism"}

\* the texts and the references the requests of the model carry
HttpTexts == { <<>>, <<"the">>, <<"fox">>, <<"dream", "nation">> }
HttpReferences == { <<"the">>, <<"fox">> }

\* the JSON bodies posted to the text routes, and to /plagiarism with the
\* field reference_texts given or left out
TextBodies == {[text |-> t] : t \in HttpTexts}
PlagiarismBodies ==
    TextBodies \cup
    {[text |-> t, reference_texts |-> r] :
        t \in HttpTexts, r \in SeqsUpTo(HttpReferences, MaxRefs)}

\* the five built-in references, each shortened to two of its words
default_references ==
    << <<"the", "question">>,
       <<"best", "times">>,
       <<"beginning", "word">>,
       <<"score", "years">>,
       <<"dream", "nation">> >>

Ok(body) == [status |-> 200, body |-> body]

\* raise HTTPException(status_code=..., detail=...)
HTTPException(status_code, detail) ==
    [status |-> status_code, body |-> [detail |-> detail]]

\* what the framework answers when a handler lets an exception through
InternalServerError == [status |-> 500, body |-> "Internal Server Error"]

\* what the framework answers when the body lacks a field the request model
\* requires
RequestValidationError(field) ==
    [status |-> 422, body |-> [detail |-> <<"field required", field>>]]

\* one entry of scorer_calls
ScorerCall(scorer, text, references) ==
    [scorer |-> scorer, text |-> text, references |-> references]

Handled(resp, calls) == [response |-> resp, calls |-> calls]

\* the key under which a text route returns its result
ResultKey(r) ==
    CASE r \in {"/paraphrase", "/upload/paraphrase"} -> "paraphrased"
      [] r \in {"/grammar", "/upload/grammar"} -> "corrected"
      [] r \in {"/summarize", "/upload/summarize"} -> "summary"

\* the text a pipeline or a rule-based function makes of its input; what it
\* is plays no part in the status of the response
Processed(r, text) == <<ResultKey(r), text>>

\* app.py 29-39 and main.py 50-60: the pipeline is called with no try around
\* it
app_text_endpoint(r, body) ==
    IF pipeline_fails
    THEN Handled(InternalServerError, <<>>)
    ELSE Handled(Ok(ResultKey(r) :> Processed(r, body.text)), <<>>)

main_text_endpoint(r, body) ==
    IF pipeline_fails
    THEN Handled(InternalServerError, <<>>)
    ELSE Handled(Ok(ResultKey(r) :> Processed(r, body.text)), <<>>)

\* main_optimized.py 101-135: the getter and the pipeline run inside a try
\* whose except raises HTTPException(500)
optimized_text_endpoint(r, body) ==
    IF pipeline_fails
    THEN Handled(HTTPException(500, "Error processing text"), <<>>)
    ELSE Handled(Ok(ResultKey(r) :> Processed(r, body.text)), <<>>)

\* main_ultra_lite.py 136-161: simple_paraphrase, simple_grammar_check and
\* simple_summarize are string operations that do not raise on a str, so the
\* except branch is not taken
ultra_lite_text_endpoint(r, body) ==
    Handled(Ok(ResultKey(r) :> Processed(r, body.text)), <<>>)

\* main.py 33-35: reference_texts: list[str] = []
PlagiarismRequest(body) ==
    IF "reference_texts" \in DOMAIN body
    THEN body
    ELSE [text |-> body.text, reference_texts |-> <<>>]

\* app.py 25-27 and 41-44: reference_texts has no default, and the list of
\* the request goes to check_plagiarism as it is
app_plagiarism_endpoint(body) ==
    IF "reference_texts" \notin DOMAIN body
    THEN Handled(RequestValidationError("reference_texts"), <<>>)
    ELSE Handled(Ok(check_plagiarism(body.text, body.reference_texts)),
                 <<ScorerCall("check_plagiarism", body.text, body.reference_texts)>>)

\* if not req.reference_texts: ... else: ...
ReferencesOrDefault(req) ==
    IF req.reference_texts = <<>> THEN default_references ELSE req.reference_texts

\* main.py 62-78
main_plagiarism_endpoint(body) ==
    LET req == PlagiarismRequest(body)
        references == ReferencesOrDefault(req)
    IN Handled(Ok(check_plagiarism(req.text, references)),
               <<ScorerCall("check_plagiarism", req.text, references)>>)

\* main_optimized.py 137-160: the same inside a try; check_plagiarism
\* returns a report on every path, so the except branch is not taken
optimized_plagiarism_endpoint(body) ==
    LET req == PlagiarismRequest(body)
        references == ReferencesOrDefault(req)
    IN Handled(Ok(check_plagiarism(req.text, references)),
               <<ScorerCall("check_plagiarism", req.text, references)>>)

\* main_ultra_lite.py 99-120: the share of common words among all the words
\* of the text and a reference, in thousandths
Jaccard(text, ref_text) ==
    LET text_words == Range(text)
        ref_words == Range(ref_text)
    IN IF text_words = {} \/ ref_words = {} THEN 0
       ELSE (1000 * Cardinality(text_words \cap ref_words))
               \div Cardinality(text_words \cup ref_words)

simple_plagiarism_check(text, references) ==
    LET similarities == [j \in DOMAIN references |-> Jaccard(text, references[j])]
        max_similarity == IF similarities = <<>> THEN 0 ELSE Max(similarities)
        is_plagiarized == max_similarity > 300
    IN [is_plagiarized |-> is_plagiarized,
        similarity_percentage |-> max_similarity * 100,
        message |-> IF is_plagiarized
                    THEN "Potential plagiarism detected"
                    ELSE "No significant plagiarism detected"]

\* main_ultra_lite.py 163-182
ultra_lite_plagiarism_endpoint(body) ==
    LET req == PlagiarismRequest(body)
        references == ReferencesOrDefault(req)
    IN Handled(Ok(simple_plagiarism_check(req.text, references)),
               <<ScorerCall("simple_plagiarism_check", req.text, references)>>)

(***************************************************************************)
(* Uploaded files.  A filename is the sequence of its parts between the    *)
(* dots (<<"notes", "txt">> is notes.txt, <<>> is the empty filename).     *)
(* The text of a file is described by the number of whitespace characters  *)
(* it starts with (lead), the number of characters from its first to its   *)
(* last character that is not whitespace (body), the number of whitespace  *)
(* characters it ends with (trail), and its words.  The size of a file is  *)
(* its number of bytes, one for each character of its text.                *)
(***************************************************************************)
Text(lead, body, trail, words) ==
    [lead |-> lead, body |-> body, trail |-> trail, words |-> words]

Length(t) == t.lead + t.body + t.trail

\* str.strip()
Strip(t) == [t EXCEPT !.lead = 0, !.trail = 0]

File(filename, text, unreadable, broken_pdf) ==
    [filename |-> filename, size |-> Length(text), text |-> text,
     unreadable |-> unreadable,     \* await file.read() raises
     broken_pdf |-> broken_pdf]     \* PyPDF2 raises on the content

Files ==
    { File(<<>>, Text(0, 10, 0, <<"fox">>), FALSE, FALSE),
      File(<<"tool", "exe">>, Text(0, 10, 0, <<"fox">>), FALSE, FALSE),
      File(<<"notes", "txt">>, Text(1, 10, 2, <<"fox", "dog">>), FALSE, FALSE),
      File(<<"notes", "txt">>, Text(3, 0, 0, <<>>), FALSE, FALSE),
      File(<<"notes", "txt">>, Text(0, 10, 0, <<"fox">>), TRUE, FALSE),
      File(<<"notes", "MD">>, Text(0, 5000, 0, <<"the">>), FALSE, FALSE),
      File(<<"notes", "txt">>, Text(0, 5001, 0, <<"fox">>), FALSE, FALSE),
      File(<<"notes", "txt">>, Text(0, 10001, 0, <<"fox">>), FALSE, FALSE),
      File(<<"paper", "pdf">>, Text(2, 20001, 2, <<"dream", "nation">>), FALSE, FALSE),
      File(<<"paper", "pdf">>, Text(0, 50001, 0, <<"dream", "nation">>), FALSE, FALSE),
      File(<<"paper", "pdf">>, Text(0, 10, 0, <<"fox">>), FALSE, TRUE),
      File(<<"notes", "txt">>, Text(0, 1024 * 1024 + 1, 0, <<"fox">>), FALSE, FALSE) }

\* str.lower() on the extensions of the model
LowerExtension(e) == CASE e = "MD" -> "md" [] e = "PDF" -> "pdf" [] OTHER -> e

\* '.' + file.filename.split('.')[-1].lower()
file_extension(filename) == <<".", LowerExtension(filename[Len(filename)])>>

allowed_extensions == {<<".", "txt">>, <<".", "md">>, <<".", "pdf">>}

\* the outcome of extract_text_from_file: the text it returns or the
\* HTTPException it raises
Returns(text) == [ok |-> TRUE, text |-> text]
Raises(exception) == [ok |-> FALSE, exception |-> exception]

\* main.py 80-98, main_optimized.py 162-184, main_ultra_lite.py 184-204:
\* the stripped text of the pages, or HTTPException(400)
extract_text_from_pdf(file) ==
    IF file.broken_pdf
    THEN Raises(HTTPException(400, "Error extracting text from PDF"))
    ELSE Returns(Strip(file.text))

\* the start of extract_text_from_file in the three servers, up to
\* await file.read(): lines 107-122 of main.py, 192-207 of main_optimized.py
\* and 208-223 of main_ultra_lite.py; an exception of read() is turned into
\* HTTPException(500) by the except Exception at the end of the function
ReadContent(file) ==
    IF file.filename = <<>>
    THEN Raises(HTTPException(400, "No file provided"))
    ELSE IF file_extension(file.filename) \notin allowed_extensions
    THEN Raises(HTTPException(400, "File type not supported"))
    ELSE IF file.unreadable
    THEN Raises(HTTPException(500, "Error processing file: read failed"))
    ELSE Returns(file.text)

\* the text of the content: lines 125-139 of main.py, 210-224 of
\* main_optimized.py and 228-238 of main_ultra_lite.py; bytes that are not
\* UTF-8 decode as Latin-1, which accepts every byte
TextContent(file) ==
    IF file_extension(file.filename) = <<".", "pdf">>
    THEN extract_text_from_pdf(file)
    ELSE Returns(file.text)

\* what is left of extract_text_from_file in main.py and main_optimized.py:
\* the checks of the text against the empty text and max_length
Validated(file, max_length) ==
    LET read == ReadContent(file)
        text_content == TextContent(file)
    IN IF ~read.ok THEN read
       ELSE IF ~text_content.ok THEN text_content
       ELSE IF Length(Strip(text_content.text)) = 0
       THEN Raises(HTTPException(400, "File appears to be empty"))
       ELSE IF Length(text_content.text) > max_length
       THEN Raises(HTTPException(400, "File content too large"))
       ELSE Returns(Strip(text_content.text))

\* main.py 145: max_length = 50000 if file_extension == '.pdf' else 10000
main_max_length(extension) ==
    IF extension = <<".", "pdf">> THEN 50000 ELSE 10000

\* main.py 101-157
main_extract_text_from_file(file) ==
    Validated(file, main_max_length(file_extension(file.filename)))

\* main_optimized.py 231: max_length = 20000 if file_extension == '.pdf' else 5000
optimized_max_length(extension) ==
    IF extension = <<".", "pdf">> THEN 20000 ELSE 5000

\* main_optimized.py 187-247
optimized_extract_text_from_file(file) ==
    Validated(file, optimized_max_length(file_extension(file.filename)))

Min(a, b) == IF a <= b THEN a ELSE b

\* text_content[:n] + "... (truncated)": the first n characters and a
\* suffix of 15 characters that begins and ends with no whitespace
Truncated(t, n) ==
    LET lead == Min(t.lead, n)
        body == Min(t.body, n - lead)
        trail == Min(t.trail, n - lead - body)
    IN [t EXCEPT !.lead = lead, !.body = body + trail + 15, !.trail = 0]

\* main_ultra_lite.py 206-257
ultra_lite_extract_text_from_file(file) ==
    LET read == ReadContent(file)
        text_content == TextContent(file)
    IN IF ~read.ok THEN read
       ELSE IF file.size > 1024 * 1024
       THEN Raises(HTTPException(400, "File too large. Max 1MB."))
       ELSE IF ~text_content.ok THEN text_content
       ELSE IF Length(Strip(text_content.text)) = 0
       THEN Raises(HTTPException(400, "File appears to be empty"))
       ELSE IF Length(text_content.text) > 5000
       THEN Returns(Strip(Truncated(text_content.text, 5000)))
       ELSE Returns(Strip(text_content.text))

\* the body of a successful upload response
UploadBody(file, text, result) ==
    [filename |-> file.filename, original_text |-> text] @@ result

\* main.py 160-188: no try around the helper and the pipeline
main_upload_endpoint(r, file) ==
    LET extracted == main_extract_text_from_file(file)
    IN IF ~extracted.ok THEN Handled(extracted.exception, <<>>)
       ELSE IF pipeline_fails THEN Handled(InternalServerError, <<>>)
       ELSE Handled(Ok(UploadBody(file, extracted.text,
                         ResultKey(r) :> Processed(r, extracted.text))), <<>>)

\* main_optimized.py 250-305: the helper runs inside the try, and the
\* except Exception also catches the HTTPException the helper raises
optimized_upload_endpoint(r, file) ==
    LET extracted == optimized_extract_text_from_file(file)
    IN IF ~extracted.ok \/ pipeline_fails
       THEN Handled(HTTPException(500, "Error processing file"), <<>>)
       ELSE Handled(Ok(UploadBody(file, extracted.text,
                         ResultKey(r) :> Processed(r, extracted.text))), <<>>)

\* main_ultra_lite.py 260-300: the same, with functions that do not raise
ultra_lite_upload_endpoint(r, file) ==
    LET extracted == ultra_lite_extract_text_from_file(file)
    IN IF ~extracted.ok
       THEN Handled(HTTPException(500, "Error processing file"), <<>>)
       ELSE Handled(Ok(UploadBody(file, extracted.text,
                         ResultKey(r) :> Processed(r, extracted.text))), <<>>)

\* main.py 190-208
main_upload_plagiarism_endpoint(file) ==
    LET extracted == main_extract_text_from_file(file)
    IN IF ~extracted.ok THEN Handled(extracted.exception, <<>>)
       ELSE LET text == extracted.text.words
            IN Handled(Ok(UploadBody(file, extracted.text,
                            check_plagiarism(text, default_references))),
                       <<ScorerCall("check_plagiarism", text, default_references)>>)

\* main_optimized.py 307-334
optimized_upload_plagiarism_endpoint(file) ==
    LET extracted == optimized_extract_text_from_file(file)
    IN IF ~extracted.ok
       THEN Handled(HTTPException(500, "Error processing file"), <<>>)
       ELSE LET text == extracted.text.words
            IN Handled(Ok(UploadBody(file, extracted.text,
                            check_plagiarism(text, default_references))),
                       <<ScorerCall("check_plagiarism", text, default_references)>>)

\* main_ultra_lite.py 302-324
ultra_lite_upload_plagiarism_endpoint(file) ==
    LET extracted == ultra_lite_extract_text_from_file(file)
    IN IF ~extracted.ok
       THEN Handled(HTTPException(500, "Error processing file"), <<>>)
       ELSE LET text == extracted.text.words
            IN Handled(Ok(UploadBody(file, extracted.text,
                            simple_plagiarism_check(text, default_references))),
                       <<ScorerCall("simple_plagiarism_check", text, default_references)>>)

\* what a request to the route carries
Requests(r) ==
    IF r \in TextRoutes THEN TextBodies
    ELSE IF r = "/plagiarism" THEN PlagiarismBodies
    ELSE Files

\* the routes behind which a text-generation pipeline runs; the functions
\* of main_ultra_lite.py are string operations
UsesPipeline(v, r) == v # "main_ultra_lite" /\ r \in TextRoutes \cup UploadRoutes

\* the routes whose scorer is check_plagiarism, whose scores carry rounding
UsesCosine(v, r) == v # "main_ultra_lite" /\ r \in {"/plagiarism", "/upload/plagiarism"}

InitHttp ==
    /\ hPc = "received"
    /\ variant \in Variants
    /\ route \in Routes(variant)
    /\ request \in Requests(route)
    /\ pipeline_fails \in (IF UsesPipeline(variant, route) THEN BOOLEAN ELSE {FALSE})
    /\ response = <<>>
    /\ scorer_calls = <<>>
    /\ rounding \in (IF UsesCosine(variant, route) THEN Roundings ELSE {0})
    /\ pPc = "idle"
    /\ input_text = <<>>
    /\ reference_texts = <<>>
    /\ report = <<>>
    /\ IdleNorm
    /\ IdleWiki
    /\ IdleConc
    /\ IdleLazy

\* the client receives the response of the handler
Respond(handled) ==
    /\ response' = handled.response
    /\ scorer_calls' = scorer_calls \o handled.calls
    /\ hPc' = "responded"
    /\ UNCHANGED <<variant, route, request, pipeline_fails, rounding>>
    /\ UNCHANGED notHttp

\* POST /paraphrase, /grammar, /summarize
TextEndpoint ==
    /\ hPc = "received"
    /\ route \in TextRoutes
    /\ Respond(CASE variant = "app" -> app_text_endpoint(route, request)
                 [] variant = "main" -> main_text_endpoint(route, request)
                 [] variant = "main_optimized" -> optimized_text_endpoint(route, request)
                 [] variant = "main_ultra_lite" -> ultra_lite_text_endpoint(route, request))

\* POST /plagiarism
PlagiarismEndpoint ==
    /\ hPc = "received"
    /\ route = "/plagiarism"
    /\ Respond(CASE variant = "app" -> app_plagiarism_endpoint(request)
                 [] variant = "main" -> main_plagiarism_endpoint(request)
                 [] variant = "main_optimized" -> optimized_plagiarism_endpoint(request)
                 [] variant = "main_ultra_lite" -> ultra_lite_plagiarism_endpoint(request))

\* POST /upload/paraphrase, /upload/grammar, /upload/summarize
UploadEndpoint ==
    /\ hPc = "received"
    /\ route \in UploadRoutes
    /\ Respond(CASE variant = "main" -> main_upload_endpoint(route, request)
                 [] variant = "main_optimized" -> optimized_upload_endpoint(route, request)
                 [] variant = "main_ultra_lite" -> ultra_lite_upload_endpoint(route, request))

\* POST /upload/plagiarism
UploadPlagiarismEndpoint ==
    /\ hPc = "received"
    /\ route = "/upload/plagiarism"
    /\ Respond(CASE variant = "main" -> main_upload_plagiarism_endpoint(request)
                 [] variant = "main_optimized" -> optimized_upload_plagiarism_endpoint(request)
                 [] variant = "main_ultra_lite" -> ultra_lite_upload_plagiarism_endpoint(request))

NextHttp ==
    \/ TextEndpoint
    \/ PlagiarismEndpoint
    \/ UploadEndpoint
    \/ UploadPlagiarismEndpoint

SpecHttp == InitHttp /\ [][NextHttp]_vars

(***************************************************************************)
(* C17: in every server that has POST /plagiarism, a request whose         *)
(* reference_texts is left out or is the empty list is scored against the  *)
(* five built-in references, and the scorer is never called with an empty  *)
(* list of references through this endpoint.                               *)
(***************************************************************************)
NoReferencesGiven ==
    "reference_texts" \in DOMAIN request => request.reference_texts = <<>>

C18_SameReportFields ==
    (hPc = "responded" /\ route = "/plagiarism" /\ response.status = 200) =>
        /\ {"similarity_scores", "max_similarity", "plagiarism_detected",
            "message"} \subseteq DOMAIN response.body
        /\ response.body.plagiarism_detected \in BOOLEAN

(***************************************************************************)
(* C19: every failure that reaches the client of a text or upload          *)
(* endpoint, in each server, has a client error status (4xx) and a         *)
(* descriptive message.                                                    *)
(***************************************************************************)
C19_ClientErrorStatus ==
    (hPc = "responded" /\ response.status # 200) =>
        /\ response.status \in 400..499
        /\ "detail" \in DOMAIN response.body

(***************************************************************************)
(* Concurrent calls.  The endpoints are plain functions, which the         *)
(* framework runs on the threads of a pool: several callers go through     *)
(* get_plagiarism_checker (main_optimized.py 77-86) and check_plagiarism   *)
(* at the same time, and their steps interleave.  fit_transform is split   *)
(* in the fitting of the vocabulary and the transformation of the texts,   *)
(* between which another thread may run.                                   *)
(***************************************************************************)
MaxCallers == 2

Callers == 1..MaxCallers

\* the arguments of the concurrent calls: no references, references that
\* score, and texts of stop words only
Calls ==
    { [text |-> <<"fox">>, references |-> <<>>],
      [text |-> <<"fox">>, references |-> << <<"fox", "dog">> >>],
      [text |-> <<"dog">>, references |-> << <<"dog", "fox", "fox">>, <<"dog">> >>],
      [text |-> <<"the">>, references |-> << <<"the">> >>] }

all_texts(c) == <<cArgs[c].text>> \o cArgs[c].references

InitConc ==
    /\ cPc = [c \in Callers |-> "get"]
    /\ cArgs \in [Callers -> Calls]
    /\ _plagiarism_checker = "None"
    /\ plagiarism_checker = [c \in Callers |-> "None"]
    /\ vectorizer = [c \in Callers |-> "none"]
    /\ cMatrix = [c \in Callers |-> <<>>]
    /\ cReport = [c \in Callers |-> <<>>]
    /\ interleaved = FALSE
    /\ rounding \in Roundings
    /\ pPc = "idle"
    /\ input_text = <<>>
    /\ reference_texts = <<>>
    /\ report = <<>>
    /\ IdleNorm
    /\ IdleWiki
    /\ IdleHttp
    /\ IdleLazy

\* main_optimized.py 79-80: global _plagiarism_checker; if it is None
GetChecker(c) ==
    /\ cPc[c] = "get"
    /\ IF _plagiarism_checker = "None"
       THEN /\ cPc' = [cPc EXCEPT ![c] = "import"]
            /\ UNCHANGED plagiarism_checker
       ELSE /\ cPc' = [cPc EXCEPT ![c] = "call"]
            /\ plagiarism_checker' =
                  [plagiarism_checker EXCEPT ![c] = _plagiarism_checker]
    /\ UNCHANGED <<cArgs, _plagiarism_checker, vectorizer, cMatrix, cReport,
                   interleaved, rounding>>
    /\ UNCHANGED notConc

\* main_optimized.py 81-86: the import, the assignment of the global and the
\* return
ImportChecker(c) ==
    /\ cPc[c] = "import"
    /\ _plagiarism_checker' = "check_plagiarism"
    /\ plagiarism_checker' = [plagiarism_checker EXCEPT ![c] = "check_plagiarism"]
    /\ cPc' = [cPc EXCEPT ![c] = "call"]
    /\ UNCHANGED <<cArgs, vectorizer, cMatrix, cReport, interleaved, rounding>>
    /\ UNCHANGED notConc

\* plagiarism.py 19-35: the early return, or a vectorizer of this call
Call(c) ==
    /\ cPc[c] = "call"
    /\ plagiarism_checker[c] = "check_plagiarism"
    /\ IF cArgs[c].references = <<>>
       THEN /\ cReport' = [cReport EXCEPT ![c] = NoReferencesReport]
            /\ cPc' = [cPc EXCEPT ![c] = "done"]
            /\ UNCHANGED vectorizer
       ELSE /\ vectorizer' = [vectorizer EXCEPT ![c] = "unfitted"]
            /\ cPc' = [cPc EXCEPT ![c] = "fit"]
            /\ UNCHANGED cReport
    /\ UNCHANGED <<cArgs, _plagiarism_checker, plagiarism_checker, cMatrix,
                   interleaved, rounding>>
    /\ UNCHANGED notConc

\* another call has fitted its vectorizer and has not returned yet
OtherCallUnderWay(c) ==
    \E d \in Callers \ {c} : cPc[d] \in {"transform", "score"}

\* a plausible slip: one vectorizer at module level, which every call fits
\* anew and every call reads
Fit_Shared(c) ==
    /\ cPc[c] = "fit"
    /\ IF VectorizationFails(all_texts(c))
       THEN /\ cReport' = [cReport EXCEPT ![c] = ErrorReport(EmptyVocabulary)]
            /\ cPc' = [cPc EXCEPT ![c] = "done"]
            /\ UNCHANGED vectorizer
       ELSE /\ vectorizer' = [d \in Callers |-> all_texts(c)]
            /\ cPc' = [cPc EXCEPT ![c] = "transform"]
            /\ UNCHANGED cReport
    /\ interleaved' = (interleaved \/ OtherCallUnderWay(c))
    /\ UNCHANGED <<cArgs, _plagiarism_checker, plagiarism_checker, cMatrix,
                   rounding>>
    /\ UNCHANGED notConc

\* plagiarism.py 38, first half of fit_transform: the vectorizer of the call
\* learns the vocabulary and the document frequencies of all_texts, or
\* raises ValueError, which the except branch turns into the error report
Fit(c) ==
    /\ cPc[c] = "fit"
    /\ IF VectorizationFails(all_texts(c))
       THEN /\ cReport' = [cReport EXCEPT ![c] = ErrorReport(EmptyVocabulary)]
            /\ cPc' = [cPc EXCEPT ![c] = "done"]
            /\ UNCHANGED vectorizer
       ELSE /\ vectorizer' = [vectorizer EXCEPT ![c] = all_texts(c)]
            /\ cPc' = [cPc EXCEPT ![c] = "transform"]
            /\ UNCHANGED cReport
    /\ interleaved' = (interleaved \/ OtherCallUnderWay(c))
    /\ UNCHANGED <<cArgs, _plagiarism_checker, plagiarism_checker, cMatrix,
                   rounding>>
    /\ UNCHANGED notConc

\* plagiarism.py 38, second half of fit_transform: the rows of all_texts
\* over the vocabulary the vectorizer of the call has learnt
Transform(c) ==
    /\ cPc[c] = "transform"
    /\ cMatrix' = [cMatrix EXCEPT ![c] =
                      [i \in DOMAIN all_texts(c) |->
                          Row(all_texts(c)[i], vectorizer[c])]]
    /\ cPc' = [cPc EXCEPT ![c] = "score"]
    /\ UNCHANGED <<cArgs, _plagiarism_checker, plagiarism_checker, vectorizer,
                   cReport, interleaved, rounding>>
    /\ UNCHANGED notConc

\* plagiarism.py 41-67
Score(c) ==
    /\ cPc[c] = "score"
    /\ cReport' = [cReport EXCEPT ![c] = SimilarityReport(cMatrix[c])]
    /\ cPc' = [cPc EXCEPT ![c] = "done"]
    /\ UNCHANGED <<cArgs, _plagiarism_checker, plagiarism_checker, vectorizer,
                   cMatrix, interleaved, rounding>>
    /\ UNCHANGED notConc

NextConc ==
    \E c \in Callers :
        \/ GetChecker(c)
        \/ ImportChecker(c)
        \/ Call(c)
        \/ Fit(c)
        \/ Transform(c)
        \/ Score(c)

SpecConc == InitConc /\ [][NextConc]_vars

(***************************************************************************)
(* C20: check_plagiarism keeps no state between calls: however the steps   *)
(* of concurrent calls interleave, the report of each call is the report   *)
(* the call gives when it runs alone on its own text and references.       *)
(***************************************************************************)
C20_ReportOfArgumentsOnly ==
    \A c \in Callers :
        cPc[c] = "done" =>
            cReport[c] = check_plagiarism(cArgs[c].text, cArgs[c].references)

\* two calls with different arguments have both scored their references
\* and returned different reports, and one of them fitted its vectorizer
\* while the other stood between its fit and its return
C20_Witness ==
    /\ interleaved
    /\ \A c \in Callers : cPc[c] = "done"
    /\ cArgs[1] # cArgs[2]
    /\ \A c \in {1, 2} : "threshold" \in DOMAIN cReport[c]
    /\ cReport[1] # cReport[2]

(***************************************************************************)
(* C21: a validation failure raised by extract_text_from_file (no          *)
(* filename, unsupported extension, empty content, content too large,      *)
(* invalid PDF) reaches the client of every /upload/ endpoint, in each     *)
(* server, with status 400 and the detail the helper raised.               *)
(***************************************************************************)
\* what extract_text_from_file of the running server makes of the upload
Extracted ==
    CASE variant = "main" -> main_extract_text_from_file(request)
      [] variant = "main_optimized" -> optimized_extract_text_from_file(request)
      [] variant = "main_ultra_lite" -> ultra_lite_extract_text_from_file(request)

IsUpload == route \in UploadRoutes \cup {"/upload/plagiarism"}

ValidationFailure == ~Extracted.ok /\ Extracted.exception.status = 400

C21_ValidationFailureReachesClient ==
    (hPc = "responded" /\ IsUpload /\ ValidationFailure) =>
        response = Extracted.exception

(***************************************************************************)
(* C22: every call of search_wikipedia_for_exact_text returns, after at    *)
(* most two searches and at most two page fetches for each candidate of    *)
(* the search results, and no page is fetched before a search has returned *)
(* a list of titles that is not empty.                                     *)
(***************************************************************************)
FetchesFor(cand) ==
    Cardinality({k \in DOMAIN fetches : fetches[k].cand = cand})

SomeSearchFoundTitles ==
    \E k \in DOMAIN searches :
        searches[k].kind = "ok" /\ searches[k].titles # <<>>

BoundedCalls ==
    /\ Len(searches) <= 2
    /\ \A k \in DOMAIN fetches : FetchesFor(fetches[k].cand) <= 2
    /\ fetches # <<>> => SomeSearchFoundTitles

C22_TerminatesWithBoundedCalls == []BoundedCalls /\ <>(pc = "done")

\* the call has returned after two searches, and for one candidate it has
\* fetched the disambiguation page and its first option
C22_Witness ==
    /\ pc = "done"
    /\ Len(searches) = 2
    /\ \E k \in DOMAIN fetches : FetchesFor(fetches[k].cand) = 2

(***************************************************************************)
(* The lazily loaded handles.  The endpoints of main_optimized.py that are *)
(* declared with def run in the threads of the server's pool, so several   *)
(* requests can stand inside one getter at the same time; no getter takes  *)
(* a lock.  A handle is the object a global refers to: its name and, for   *)
(* the objects built anew at every call, a serial number.                  *)
(***************************************************************************)
MaxRequests == 3    \* most requests inside one getter at the same time

Requesters == 1..MaxRequests

\* main_optimized.py 44, 55, 66, 77 and paraphraser_lite.py 9
Getters == {"get_paraphraser", "get_grammar_checker", "get_summarizer",
            "get_plagiarism_checker", "get_paraphrase_pipeline"}

\* main_optimized.py 39-42, paraphraser_lite.py 7
None == [object |-> "None", id |-> 0]

\* main_optimized.py 49, 60, 71, 82: "from m import f"; the module m is
\* executed by the first import only, every import binds the one function f
Imported(g) ==
    [object |-> CASE g = "get_paraphraser" -> "paraphrase_text"
                  [] g = "get_grammar_checker" -> "correct_grammar"
                  [] g = "get_summarizer" -> "summarize_text"
                  [] g = "get_plagiarism_checker" -> "check_plagiarism",
     id |-> 0]

\* paraphraser_lite.py 13-18: every call of pipeline(...) builds an object
\* of its own; n counts the pipelines built so far
pipeline(n) == [object |-> "pipeline", id |-> n + 1]

InitLazy ==
    /\ gPc = [c \in Requesters |-> "test"]
    /\ getter \in Getters
    /\ _handle = None
    /\ loaded = [c \in Requesters |-> None]
    /\ handle = [c \in Requesters |-> None]
    /\ assignments = <<>>
    /\ IdleNorm
    /\ IdleWiki
    /\ IdlePlag
    /\ IdleHttp
    /\ IdleConc

\* main_optimized.py 47, 58, 69, 80 and paraphraser_lite.py 11: the test
\* "if _x is None"
TestHandle(c) ==
    /\ gPc[c] = "test"
    /\ gPc' = [gPc EXCEPT ![c] = IF _handle = None THEN "load" ELSE "return"]
    /\ UNCHANGED <<getter, _handle, loaded, handle, assignments>>
    /\ UNCHANGED notLazy

\* main_optimized.py 48-49, 59-60, 70-71, 81-82: the import;
\* paraphraser_lite.py 13-18: the call of pipeline(...), before its value is
\* stored
Load(c) ==
    /\ gPc[c] = "load"
    /\ loaded' = [loaded EXCEPT ![c] =
                    IF getter = "get_paraphrase_pipeline"
                    THEN pipeline(Cardinality({d \in Requesters : loaded[d] # None}))
                    ELSE Imported(getter)]
    /\ gPc' = [gPc EXCEPT ![c] = "assign"]
    /\ UNCHANGED <<getter, _handle, handle, assignments>>
    /\ UNCHANGED notLazy

\* main_optimized.py 50-52, 61-63, 72-74, 83-85 and paraphraser_lite.py 13,
\* 19-20: the assignment to the global, and gc.collect()
Assign(c) ==
    /\ gPc[c] = "assign"
    /\ _handle' = loaded[c]
    /\ assignments' = Append(assignments, loaded[c])
    /\ gPc' = [gPc EXCEPT ![c] = "return"]
    /\ UNCHANGED <<getter, loaded, handle>>
    /\ UNCHANGED notLazy

\* main_optimized.py 53, 64, 75, 86 and paraphraser_lite.py 21: "return _x"
\* reads the global
ReturnHandle(c) ==
    /\ gPc[c] = "return"
    /\ handle' = [handle EXCEPT ![c] = _handle]
    /\ gPc' = [gPc EXCEPT ![c] = "done"]
    /\ UNCHANGED <<getter, _handle, loaded, assignments>>
    /\ UNCHANGED notLazy

NextLazy ==
    \E c \in Requesters :
        \/ TestHandle(c)
        \/ Load(c)
        \/ Assign(c)
        \/ ReturnHandle(c)

SpecLazy == InitLazy /\ [][NextLazy]_vars

\* the global was assigned at most once
InitializedAtMostOnce == Len(assignments) <= 1

\* no assignment changed the object the global refers to
NeverReset ==
    \A k \in DOMAIN assignments : assignments[k] = assignments[1]

\* the requests that have their handle have the same one
SameHandle ==
    \A c, d \in DOMAIN handle :
        handle[c] # None /\ handle[d] # None => handle[c] = handle[d]

\* C23: each lazily loaded global handle is initialized at most once, also
\* when several requests call its getter concurrently; once set it is never
\* reset, and every caller receives the same handle
C23_InitializedOnce ==
    /\ InitializedAtMostOnce
    /\ NeverReset
    /\ SameHandle

(***************************************************************************)
(* C24: whenever extract_text_from_file returns a text, the text is not    *)
(* empty, has no leading or trailing whitespace and is no longer than the  *)
(* size limit of the server (main: 10000 characters, 50000 for a PDF;      *)
(* main_optimized: 5000, 20000 for a PDF; main_ultra_lite: 5000); every    *)
(* other upload ends in an HTTP error and no text is passed on to the      *)
(* processing.                                                             *)
(***************************************************************************)
IsPdf == file_extension(request.filename) = <<".", "pdf">>

StatedLimit ==
    CASE variant = "main" -> IF IsPdf THEN 50000 ELSE 10000
      [] variant = "main_optimized" -> IF IsPdf THEN 20000 ELSE 5000
      [] variant = "main_ultra_lite" -> 5000

\* the returned text is not empty and begins and ends with no whitespace
StrippedAndNotEmpty(text) ==
    /\ Length(text) > 0
    /\ text.lead = 0
    /\ text.trail = 0

\* the response is an HTTP error, and neither the scorer nor the response
\* body has a text of the upload
EndsInErrorUnprocessed ==
    /\ response.status >= 400
    /\ scorer_calls = <<>>
    /\ "original_text" \notin DOMAIN response.body

C24_ReturnedTextWithinLimit ==
    (hPc = "responded" /\ IsUpload) =>
        IF Extracted.ok
        THEN /\ StrippedAndNotEmpty(Extracted.text)
             /\ Length(Extracted.text) <= StatedLimit
        ELSE EndsInErrorUnprocessed
====
